---- MODULE Spec2Model ----
(***************************************************************************)
(* Social-bot post generation: BotPostsService.generate_bot_post and its   *)
(* clean_response post-processing (services/bot_posts_service.py) over the *)
(* model backend KoalphaLoader.get_response (models/koalpha_loader.py).    *)
(*                                                                         *)
(* Three specifications share the module:                                  *)
(*   SpecClean  clean_response applied once and twice to a bounded text    *)
(*   Spec       one post-generation request run through the pipeline and   *)
(*              the backend, every collaborator call free to raise         *)
(*   SpecConc   several get_response calls interleaved on the one shared   *)
(*              loader instance                                            *)
(* Text is a sequence of one-character strings.                            *)
(***************************************************************************)
EXTENDS Integers, Sequences, FiniteSets, TLC

VARIABLES
    \* ---- clean_response applied to a text (SpecClean)
    text,           \* the argument of the first clean_response call
    once,           \* clean_response(text)
    twice,          \* clean_response(clean_response(text))
    cstep           \* how many times clean_response has run: 0, 1, 2

VARIABLES
    \* ---- one post-generation request (Spec): BotPostsService.generate_bot_post
    mode,             \* self.mode = self.model.mode: "colab" (remote) or "gcp" (local)
    n_posts,          \* len(request.posts)
    pc,               \* the statement generate_bot_post is at
    outcome,          \* what the caller gets: the response or the exception class
    exc_from,         \* the step whose call raised an exception other than
                      \* InvalidQueryParameterError, "none" if no step did
    trace,            \* the Langfuse trace of the request
    generations,      \* the generation records emitted into the trace, in order
    messages,         \* local variable messages
    model_response,   \* local variable model_response
    original_content, \* local variable original_content
    content,          \* local variable content
    response          \* data.content of the BotPostsResponse returned

VARIABLES
    \* ---- the loader self.model.loader (Spec): KoalphaLoader.get_response
    bpc,              \* the statement get_response is at
    http_response,    \* local variable response (requests.Response)
    bres,             \* the dict get_response returns
    data_messages,    \* self.data["messages"], a field of the shared instance
    inference_calls,  \* calls of self.model.get_response by the request
    http_requests,    \* calls of requests.post by the get_response call
    generate_calls    \* calls of self.model_vllm.generate by the get_response call

VARIABLES
    \* ---- concurrent get_response calls on the one loader (SpecConc)
    call_pc,          \* per call, the statement it is at
    call_messages,    \* per call, its argument messages
    call_sent         \* per call, the "messages" of the JSON body it posted

cleanVars == <<text, once, twice, cstep>>

pipeVars == <<mode, n_posts, pc, outcome, exc_from, trace, generations, messages,
              model_response, original_content, content, response>>

loaderVars == <<bpc, http_response, bres, inference_calls, http_requests,
                generate_calls>>

concVars == <<call_pc, call_messages, call_sent>>

vars == <<cleanVars, pipeVars, loaderVars, data_messages, concVars>>

-----------------------------------------------------------------------------
(* Bounds *)

\* longest text handed to clean_response in SpecClean
MaxLen == 5

\* longest text the model backend answers with in Spec
ContentLen == 3

\* most posts a request carries
MaxPosts == 7

\* concurrent get_response calls in SpecConc
NumCalls == 2

-----------------------------------------------------------------------------
(* Text *)

\* a letter, the three characters clean_response looks for, and two kinds of
\* whitespace (re's \s and str.strip treat both alike; "." matches only one)
Chars == {"a", ":", "[", "]", " ", "\n"}

\* what \s matches and str.strip removes
IsSpace(c) == c \in {" ", "\n"}

\* the texts of length n
TextsOfLen(n) == [1..n -> Chars]

\* the texts of length at most n
TextsUpTo(n) == UNION {TextsOfLen(k) : k \in 0..n}

\* str.find(c, i): the first position >= i of s holding c, 0 when there is none
RECURSIVE Find(_, _, _)
Find(s, c, i) ==
    IF i > Len(s) THEN 0
    ELSE IF s[i] = c THEN i
    ELSE Find(s, c, i + 1)

\* text.split(':', 1)[1] under the guard ':' in text
SplitColon(s) ==
    IF Find(s, ":", 1) # 0
    THEN SubSeq(s, Find(s, ":", 1) + 1, Len(s))
    ELSE s

\* the end of a match of .*?\] tried from position j: the first "]" reached
\* before a line break ("." does not match "\n"), 0 when the match fails
RECURSIVE MatchEnd(_, _)
MatchEnd(s, j) ==
    IF j > Len(s) THEN 0
    ELSE IF s[j] = "]" THEN j
    ELSE IF s[j] = "\n" THEN 0
    ELSE MatchEnd(s, j + 1)

\* re.sub(r'\[.*?\]', '', s) from position i on: leftmost matches, each the
\* shortest, removed; a "[" whose match fails is kept
RECURSIVE SubBrackets(_, _)
SubBrackets(s, i) ==
    IF i > Len(s) THEN <<>>
    ELSE IF s[i] = "[" /\ MatchEnd(s, i + 1) # 0
         THEN SubBrackets(s, MatchEnd(s, i + 1) + 1)
         ELSE <<s[i]>> \o SubBrackets(s, i + 1)

\* re.sub(r'\s+', ' ', s) from position i on: each maximal run of whitespace
\* becomes one space
RECURSIVE SubSpaces(_, _)
SubSpaces(s, i) ==
    IF i > Len(s) THEN <<>>
    ELSE IF IsSpace(s[i])
         THEN (IF i > 1 /\ IsSpace(s[i - 1]) THEN <<>> ELSE <<" ">>)
              \o SubSpaces(s, i + 1)
         ELSE <<s[i]>> \o SubSpaces(s, i + 1)

\* str.lstrip
RECURSIVE LStrip(_)
LStrip(s) ==
    IF s # <<>> /\ IsSpace(Head(s)) THEN LStrip(Tail(s)) ELSE s

\* str.rstrip
RECURSIVE RStrip(_)
RStrip(s) ==
    IF s # <<>> /\ IsSpace(s[Len(s)]) THEN RStrip(SubSeq(s, 1, Len(s) - 1)) ELSE s

\* str.strip
Strip(s) == RStrip(LStrip(s))

\* a slip in clean_response: the trim done first, before the removals leave
\* new whitespace at the ends
clean_response_strip_first(s) ==
    SubSpaces(SubBrackets(SplitColon(Strip(s)), 1), 1)

\* BotPostsService.clean_response
clean_response(s) ==
    Strip(SubSpaces(SubBrackets(SplitColon(s), 1), 1))

-----------------------------------------------------------------------------
(* Values *)

\* Python's None, kept apart from every text
None == <<"None">>

\* a local variable not yet assigned ('x' in locals() is false)
Unset == <<"unset">>

\* no dict yet
NoResult == [none |-> TRUE]

\* no requests.Response yet
NoHttp == [status |-> 0, body |-> "none", content |-> <<>>]

\* a request with fewer posts is refused
MinPosts == 5

\* the one status get_response takes for success
HttpOk == 200

\* the status get_response gives a failed local generation
LocalError == 500

\* KoalphaLoader.mode
Modes == {"colab", "gcp"}

\* statuses the remote endpoint answers with: success, another 2xx, two failures
Statuses == {HttpOk, 201, 404, LocalError}

\* what the remote endpoint answers: an OpenAI-style completion whose first
\* choice holds a text (or null), JSON of another shape, or a body that is no JSON
HttpResponses ==
    [status : Statuses, body : {"completion"},
     content : TextsUpTo(ContentLen) \cup {None}]
    \cup [status : Statuses, body : {"other_json", "not_json"}, content : {<<>>}]

\* dict.get(k, default)
DictGet(d, k, default) == IF k \in DOMAIN d THEN d[k] ELSE default

\* BotPostsPrompt.json_to_messages: one message per post, oldest first
json_to_messages(n) == [i \in 1..n |-> [role |-> "user", content |-> i]]

\* log_inference_to_langfuse: one generation record added to the trace
log_inference_to_langfuse(gens, name, c) ==
    Append(gens, [name |-> name, content |-> c])

-----------------------------------------------------------------------------
(* KoalphaLoader.get_response, called once by the request *)

\* the branch on self.mode
LoaderEntry(md) == IF md = "colab" THEN "remote_set" ELSE "local_template"

\* self.model.get_response(messages, trace=..., ...): the call goes on to
\* self.model.loader.get_response(messages)
model_get_response(md) == LoaderEntry(md)

\* self.data["messages"] = messages
RemoteSetMessages ==
    /\ bpc = "remote_set"
    /\ data_messages' = messages
    /\ bpc' = "remote_post"
    /\ UNCHANGED <<http_response, bres, inference_calls, http_requests, generate_calls>>
    /\ UNCHANGED <<cleanVars, pipeVars, concVars>>

\* response = requests.post(url, headers=self.headers, json=self.data)
RemotePost ==
    /\ bpc = "remote_post"
    /\ http_requests' = http_requests + 1
    /\ \/ \E r \in HttpResponses :
            /\ http_response' = r
            /\ bpc' = "remote_check"
       \/ \* no connection, a timeout, a bad URL: requests.post raises
          /\ bpc' = "raised"
          /\ UNCHANGED http_response
    /\ UNCHANGED <<bres, inference_calls, generate_calls, data_messages>>
    /\ UNCHANGED <<cleanVars, pipeVars, concVars>>

\* a slip in the status branch: a failed request is posted once more
RemoteReturnRetry ==
    /\ bpc = "remote_check"
    /\ IF http_response.status # HttpOk /\ http_requests < 2
       THEN /\ bpc' = "remote_post"
            /\ UNCHANGED bres
       ELSE IF http_response.status # HttpOk
       THEN /\ bres' = [status_code |-> http_response.status, url |-> "ngrok",
                        headers |-> "headers",
                        error |-> IF http_response.body = "not_json"
                                  THEN "text_body" ELSE "json_body"]
            /\ bpc' = "returned"
       ELSE IF http_response.body = "completion"
       THEN /\ bres' = [status_code |-> http_response.status, url |-> "ngrok",
                        content |-> http_response.content]
            /\ bpc' = "returned"
       ELSE /\ bpc' = "raised"
            /\ UNCHANGED bres
    /\ UNCHANGED <<http_response, inference_calls, http_requests, generate_calls,
                   data_messages>>
    /\ UNCHANGED <<cleanVars, pipeVars, concVars>>

\* a slip in the failure dict: an empty "content" beside "error"
RemoteReturnBoth ==
    /\ bpc = "remote_check"
    /\ IF http_response.status # HttpOk
       THEN /\ bres' = [status_code |-> http_response.status, url |-> "ngrok",
                        headers |-> "headers",
                        error |-> IF http_response.body = "not_json"
                                  THEN "text_body" ELSE "json_body",
                        content |-> <<>>]
            /\ bpc' = "returned"
       ELSE IF http_response.body = "completion"
       THEN /\ bres' = [status_code |-> http_response.status, url |-> "ngrok",
                        content |-> http_response.content]
            /\ bpc' = "returned"
       ELSE /\ bpc' = "raised"
            /\ UNCHANGED bres
    /\ UNCHANGED <<http_response, inference_calls, http_requests, generate_calls,
                   data_messages>>
    /\ UNCHANGED <<cleanVars, pipeVars, concVars>>

\* the status check and the two returns of the remote branch
RemoteReturn ==
    /\ bpc = "remote_check"
    /\ IF http_response.status # HttpOk
       THEN \* error_body = response.json(), or response.text on ValueError
            /\ bres' = [status_code |-> http_response.status, url |-> "ngrok",
                        headers |-> "headers",
                        error |-> IF http_response.body = "not_json"
                                  THEN "text_body" ELSE "json_body"]
            /\ bpc' = "returned"
       ELSE IF http_response.body = "completion"
       THEN /\ bres' = [status_code |-> http_response.status, url |-> "ngrok",
                        content |-> http_response.content]
            /\ bpc' = "returned"
       ELSE \* response.json() raises ValueError, or the subscripting of
            \* body["choices"][0]["message"]["content"] raises
            /\ bpc' = "raised"
            /\ UNCHANGED bres
    /\ UNCHANGED <<http_response, inference_calls, http_requests, generate_calls,
                   data_messages>>
    /\ UNCHANGED <<cleanVars, pipeVars, concVars>>

\* tokenizer = AutoTokenizer.from_pretrained(...); tokenizer.apply_chat_template(...)
LocalTemplate ==
    /\ bpc = "local_template"
    /\ \/ bpc' = "local_generate"
       \/ \* the tokenizer cannot be loaded, or the template fails: outside the try
          bpc' = "raised"
    /\ UNCHANGED <<http_response, bres, inference_calls, http_requests,
                   generate_calls, data_messages>>
    /\ UNCHANGED <<cleanVars, pipeVars, concVars>>

\* the try around self.model_vllm.generate, and the two returns of the local branch
LocalGenerate ==
    /\ bpc = "local_generate"
    /\ generate_calls' = generate_calls + 1
    /\ \/ \E c \in TextsUpTo(ContentLen) :
            bres' = [status_code |-> HttpOk, url |-> "local_vllm", content |-> c]
       \/ \* except Exception as e
          bres' = [status_code |-> LocalError, url |-> "local_vllm",
                   error |-> "str(e)"]
    /\ bpc' = "returned"
    /\ UNCHANGED <<http_response, inference_calls, http_requests, data_messages>>
    /\ UNCHANGED <<cleanVars, pipeVars, concVars>>

-----------------------------------------------------------------------------
(* BotPostsService.generate_bot_post, one request.  self.model.get_response   *)
(* hands the messages to self.model.loader.get_response and hands back what  *)
(* that returns or raises.  A call of a collaborator (the Langfuse client,   *)
(* the prompt template, the response schema) either completes or raises.     *)

\* the rest of the module, untouched by a statement of generate_bot_post
PipeFrame == UNCHANGED <<mode, n_posts, cleanVars, concVars, data_messages,
                         http_response, bres, http_requests, generate_calls>>

\* trace = self.langfuse.trace(...): before the try
TraceOpen ==
    /\ pc = "trace_open"
    /\ \/ /\ trace' = [trace EXCEPT !.opened = TRUE]
          /\ pc' = "validate"
          /\ UNCHANGED <<outcome, exc_from>>
       \/ \* the call raises: no handler is in scope, the exception leaves as it is
          /\ exc_from' = "trace_open"
          /\ outcome' = "Exception"
          /\ pc' = "done"
          /\ UNCHANGED trace
    /\ UNCHANGED <<generations, messages, model_response, original_content,
                   content, response, bpc, inference_calls>>
    /\ PipeFrame

\* if len(request.posts) < 5: trace.update(status="error", ...); raise
Validate ==
    /\ pc = "validate"
    /\ IF n_posts < MinPosts
       THEN \/ /\ trace' = [trace EXCEPT !.status = "error"]
               /\ pc' = "except_invalid"
               /\ UNCHANGED exc_from
            \/ \* trace.update raises inside the try: except Exception takes it
               /\ exc_from' = "validate"
               /\ pc' = "handler"
               /\ UNCHANGED trace
       ELSE /\ pc' = "prompt"
            /\ UNCHANGED <<trace, exc_from>>
    /\ UNCHANGED <<outcome, generations, messages, model_response,
                   original_content, content, response, bpc, inference_calls>>
    /\ PipeFrame

\* except InvalidQueryParameterError: raise
ReraiseInvalid ==
    /\ pc = "except_invalid"
    /\ outcome' = "InvalidQueryParameterError"
    /\ pc' = "done"
    /\ UNCHANGED <<exc_from, trace, generations, messages, model_response,
                   original_content, content, response, bpc, inference_calls>>
    /\ PipeFrame

\* log_model_parameters = {...}; BotPostsPrompt(); get_bot_user_info();
\* prompt_client, messages = bot_post_prompt.json_to_messages(...).
\* (KoalphaLoader.__init__ sets no temperature, top_p, max_tokens or stop:
\* reading them off self.model.loader raises unless the loader object has
\* them, one more way this step raises.)
BuildPrompt ==
    /\ pc = "prompt"
    /\ \/ /\ messages' = json_to_messages(n_posts)
          /\ pc' = "inference"
          /\ UNCHANGED exc_from
       \/ /\ exc_from' = "prompt"
          /\ pc' = "handler"
          /\ UNCHANGED messages
    /\ UNCHANGED <<outcome, trace, generations, model_response, original_content,
                   content, response, bpc, inference_calls>>
    /\ PipeFrame

\* model_response = self.model.get_response(messages, ...): the call
CallInference ==
    /\ pc = "inference"
    /\ inference_calls' = inference_calls + 1
    /\ bpc' = model_get_response(mode)
    /\ pc' = "await"
    /\ UNCHANGED <<outcome, exc_from, trace, generations, messages, model_response,
                   original_content, content, response>>
    /\ PipeFrame

\* a slip in reading the result: model_response["content"], a KeyError on a
\* failure dict
ReceiveResponseSubscript ==
    /\ pc = "await"
    /\ bpc = "returned"
    /\ model_response' = bres
    /\ IF "content" \in DOMAIN bres
       THEN /\ original_content' = bres.content
            /\ pc' = "log_original"
            /\ UNCHANGED exc_from
       ELSE /\ exc_from' = "inference"
            /\ pc' = "handler"
            /\ UNCHANGED original_content
    /\ bpc' = "idle"
    /\ UNCHANGED <<outcome, trace, generations, messages, content, response,
                   inference_calls>>
    /\ PipeFrame

\* get_response has returned: original_content = model_response.get("content", "")
ReceiveResponse ==
    /\ pc = "await"
    /\ bpc = "returned"
    /\ model_response' = bres
    /\ original_content' = DictGet(bres, "content", <<>>)
    /\ pc' = "log_original"
    /\ bpc' = "idle"
    /\ UNCHANGED <<outcome, exc_from, trace, generations, messages, content,
                   response, inference_calls>>
    /\ PipeFrame

\* get_response has raised: except Exception takes it
ReceiveException ==
    /\ pc = "await"
    /\ bpc = "raised"
    /\ exc_from' = "inference"
    /\ pc' = "handler"
    /\ bpc' = "idle"
    /\ UNCHANGED <<outcome, trace, generations, messages, model_response,
                   original_content, content, response, inference_calls>>
    /\ PipeFrame

\* log_inference_to_langfuse(name="generate_bot_post_original", content=original_content)
LogOriginal ==
    /\ pc = "log_original"
    /\ \/ /\ generations' = log_inference_to_langfuse(
                                generations, "generate_bot_post_original",
                                original_content)
          /\ pc' = "clean"
          /\ UNCHANGED exc_from
       \/ /\ exc_from' = "log_original"
          /\ pc' = "handler"
          /\ UNCHANGED generations
    /\ UNCHANGED <<outcome, trace, messages, model_response, original_content,
                   content, response, bpc, inference_calls>>
    /\ PipeFrame

\* content = self.clean_response(original_content); ':' in None is a TypeError
Clean ==
    /\ pc = "clean"
    /\ IF original_content = None
       THEN /\ exc_from' = "clean"
            /\ pc' = "handler"
            /\ UNCHANGED content
       ELSE /\ content' = clean_response(original_content)
            /\ pc' = "log_cleaned"
            /\ UNCHANGED exc_from
    /\ UNCHANGED <<outcome, trace, generations, messages, model_response,
                   original_content, response, bpc, inference_calls>>
    /\ PipeFrame

\* a slip in the second record: the raw text logged again
LogCleanedRaw ==
    /\ pc = "log_cleaned"
    /\ \/ /\ generations' = log_inference_to_langfuse(
                                generations, "generate_bot_post_cleaned",
                                original_content)
          /\ pc' = "finalize"
          /\ UNCHANGED exc_from
       \/ /\ exc_from' = "log_cleaned"
          /\ pc' = "handler"
          /\ UNCHANGED generations
    /\ UNCHANGED <<outcome, trace, messages, model_response, original_content,
                   content, response, bpc, inference_calls>>
    /\ PipeFrame

\* log_inference_to_langfuse(name="generate_bot_post_cleaned", content=content)
LogCleaned ==
    /\ pc = "log_cleaned"
    /\ \/ /\ generations' = log_inference_to_langfuse(
                                generations, "generate_bot_post_cleaned", content)
          /\ pc' = "finalize"
          /\ UNCHANGED exc_from
       \/ /\ exc_from' = "log_cleaned"
          /\ pc' = "handler"
          /\ UNCHANGED generations
    /\ UNCHANGED <<outcome, trace, messages, model_response, original_content,
                   content, response, bpc, inference_calls>>
    /\ PipeFrame

\* trace.update(output=content)
Finalize ==
    /\ pc = "finalize"
    /\ \/ /\ trace' = [trace EXCEPT !.output = content]
          /\ pc' = "build_response"
          /\ UNCHANGED exc_from
       \/ /\ exc_from' = "finalize"
          /\ pc' = "handler"
          /\ UNCHANGED trace
    /\ UNCHANGED <<outcome, generations, messages, model_response,
                   original_content, content, response, bpc, inference_calls>>
    /\ PipeFrame

\* data = BotPostResponseData(...); return BotPostsResponse(...)
BuildResponse ==
    /\ pc = "build_response"
    /\ \/ /\ response' = content
          /\ outcome' = "BotPostsResponse"
          /\ pc' = "done"
          /\ UNCHANGED exc_from
       \/ \* the schema refuses bot_user or the content
          /\ exc_from' = "build_response"
          /\ pc' = "handler"
          /\ UNCHANGED <<response, outcome>>
    /\ UNCHANGED <<trace, generations, messages, model_response, original_content,
                   content, bpc, inference_calls>>
    /\ PipeFrame

\* except Exception as e: self.logger.error(...); trace.update(status="error", ...);
\* raise InternalServerError()
Handler ==
    /\ pc = "handler"
    /\ \/ /\ trace' = [trace EXCEPT !.status = "error"]
          /\ outcome' = "InternalServerError"
       \/ \* trace.update raises inside the handler: that exception leaves instead
          /\ outcome' = "Exception"
          /\ UNCHANGED trace
    /\ pc' = "done"
    /\ UNCHANGED <<exc_from, generations, messages, model_response,
                   original_content, content, response, bpc, inference_calls>>
    /\ PipeFrame

-----------------------------------------------------------------------------
(* SpecConc: get_response called from several server threads on the one     *)
(* KoalphaLoader instance (app.state.model), remote mode.  The calls        *)
(* interleave between statements.                                            *)

Calls == 1..NumCalls

\* the message lists the calls are made with
CallMessages == {json_to_messages(n) : n \in MinPosts..MaxPosts}

\* the rest of the module, untouched by a concurrent call
ConcFrame == UNCHANGED <<cleanVars, pipeVars, loaderVars>>

\* get_response(messages) entered: self.data["messages"] = messages
ConcSetMessages(c) ==
    /\ call_pc[c] = "idle"
    /\ \E m \in CallMessages :
          /\ call_messages' = [call_messages EXCEPT ![c] = m]
          /\ data_messages' = m
    /\ call_pc' = [call_pc EXCEPT ![c] = "remote_post"]
    /\ UNCHANGED call_sent
    /\ ConcFrame

\* requests.post(url, headers=self.headers, json=self.data): the body is
\* serialised from self.data as it is now
ConcPost(c) ==
    /\ call_pc[c] = "remote_post"
    /\ call_sent' = [call_sent EXCEPT ![c] = data_messages]
    /\ call_pc' = [call_pc EXCEPT ![c] = "remote_check"]
    /\ UNCHANGED <<call_messages, data_messages>>
    /\ ConcFrame

\* the call returns its dict
ConcReturn(c) ==
    /\ call_pc[c] = "remote_check"
    /\ call_pc' = [call_pc EXCEPT ![c] = "returned"]
    /\ UNCHANGED <<call_messages, call_sent, data_messages>>
    /\ ConcFrame

-----------------------------------------------------------------------------
(* Specifications *)

\* no text is being cleaned on its own
IdleClean ==
    /\ text = <<>>
    /\ once = <<>>
    /\ twice = <<>>
    /\ cstep = 0

\* no request is being served
IdlePipe ==
    /\ mode = "colab"
    /\ n_posts = 0
    /\ pc = "off"
    /\ outcome = "pending"
    /\ exc_from = "none"
    /\ trace = [opened |-> FALSE, status |-> "none", output |-> Unset]
    /\ generations = <<>>
    /\ messages = Unset
    /\ model_response = NoResult
    /\ original_content = Unset
    /\ content = Unset
    /\ response = Unset

\* KoalphaLoader.__init__: self.data["messages"] = [], and no call under way
IdleLoader ==
    /\ bpc = "idle"
    /\ http_response = NoHttp
    /\ bres = NoResult
    /\ data_messages = <<>>
    /\ inference_calls = 0
    /\ http_requests = 0
    /\ generate_calls = 0

\* no concurrent calls
IdleConc ==
    /\ call_pc = [c \in Calls |-> "off"]
    /\ call_messages = [c \in Calls |-> <<>>]
    /\ call_sent = [c \in Calls |-> <<>>]

\* a text of the bound's length or shorter, about to be cleaned
InitClean ==
    /\ text \in TextsUpTo(MaxLen)
    /\ once = <<>>
    /\ twice = <<>>
    /\ cstep = 0
    /\ IdlePipe /\ IdleLoader /\ IdleConc

\* content = self.clean_response(original_content)
CleanOnce ==
    /\ cstep = 0
    /\ once' = clean_response(text)
    /\ cstep' = 1
    /\ UNCHANGED <<text, twice>>
    /\ UNCHANGED <<pipeVars, loaderVars, data_messages, concVars>>

\* a second pass, over the cleaned text
CleanTwice ==
    /\ cstep = 1
    /\ twice' = clean_response(once)
    /\ cstep' = 2
    /\ UNCHANGED <<text, once>>
    /\ UNCHANGED <<pipeVars, loaderVars, data_messages, concVars>>

NextClean == CleanOnce \/ CleanTwice

SpecClean == InitClean /\ [][NextClean]_vars

\* a request of any size arrives at a service in either mode
Init ==
    /\ mode \in Modes
    /\ n_posts \in 0..MaxPosts
    /\ pc = "trace_open"
    /\ outcome = "pending"
    /\ exc_from = "none"
    /\ trace = [opened |-> FALSE, status |-> "none", output |-> Unset]
    /\ generations = <<>>
    /\ messages = Unset
    /\ model_response = NoResult
    /\ original_content = Unset
    /\ content = Unset
    /\ response = Unset
    /\ IdleClean /\ IdleLoader /\ IdleConc

Next ==
    \/ TraceOpen \/ Validate \/ ReraiseInvalid \/ BuildPrompt \/ CallInference
    \/ RemoteSetMessages \/ RemotePost \/ RemoteReturn
    \/ LocalTemplate \/ LocalGenerate
    \/ ReceiveResponse \/ ReceiveException
    \/ LogOriginal \/ Clean \/ LogCleaned \/ Finalize \/ BuildResponse
    \/ Handler

Spec == Init /\ [][Next]_vars

\* the loader as constructed, and every call yet to be made
InitConc ==
    /\ call_pc = [c \in Calls |-> "idle"]
    /\ call_messages = [c \in Calls |-> <<>>]
    /\ call_sent = [c \in Calls |-> <<>>]
    /\ IdleClean /\ IdlePipe /\ IdleLoader

NextConc ==
    \E c \in Calls : ConcSetMessages(c) \/ ConcPost(c) \/ ConcReturn(c)

SpecConc == InitConc /\ [][NextConc]_vars

-----------------------------------------------------------------------------
(* The transformation of section 4.2 step 6, read as it is written: a          *)
(* bracketed span is a "[" and everything up to the first "]" after it.       *)

\* every "[" ... first following "]" removed, left to right
RECURSIVE RemoveSpans(_, _)
RemoveSpans(s, i) ==
    IF i > Len(s) THEN <<>>
    ELSE IF s[i] = "[" /\ Find(s, "]", i + 1) # 0
         THEN RemoveSpans(s, Find(s, "]", i + 1) + 1)
         ELSE <<s[i]>> \o RemoveSpans(s, i + 1)

\* drop through the first colon, remove the spans, collapse the whitespace, trim
ReferenceClean(s) == Strip(SubSpaces(RemoveSpans(SplitColon(s), 1), 1))

\* s holds a colon
HasColon(s) == \E i \in 1..Len(s) : s[i] = ":"

\* s holds a "[" with a "]" somewhere after it
HasSpan(s) == \E i, j \in 1..Len(s) : i < j /\ s[i] = "[" /\ s[j] = "]"

\* s holds a line break
HasNewline(s) == \E i \in 1..Len(s) : s[i] = "\n"

\* a dict of get_response that reports a failure
IsFailure(r) ==
    /\ r # NoResult
    /\ r.status_code # HttpOk
    /\ "error" \in DOMAIN r
    /\ "content" \notin DOMAIN r

\* the two generation records of a run, for a raw and a cleaned text
RecordOriginal(c) == [name |-> "generate_bot_post_original", content |-> c]

RecordCleaned(c) == [name |-> "generate_bot_post_cleaned", content |-> c]

-----------------------------------------------------------------------------
(* Claims *)

\* C1: a request with fewer than 5 posts always ends in
\* InvalidQueryParameterError, never in InternalServerError, and never reaches
\* the model backend; a request with 5 or more passes validation and reaches
\* the inference call.  (Stated of the requests whose trace was opened: the
\* trace open that raises is before the try, and C2's case.)
ValidationGate ==
    /\ n_posts < MinPosts => inference_calls = 0
    /\ (pc = "done" /\ trace.opened /\ n_posts < MinPosts) =>
           outcome = "InvalidQueryParameterError"
    /\ (pc = "done" /\ n_posts >= MinPosts) =>
           /\ outcome # "InvalidQueryParameterError"
           /\ exc_from = "none" => inference_calls = 1

\* C2: an exception other than InvalidQueryParameterError raised at any step
\* from the trace open to the response building is recorded in the trace with
\* status error and reaches the caller as InternalServerError; nothing else
\* ever leaves generate_bot_post.
AllWrapped ==
    pc = "done" =>
        /\ outcome \in {"BotPostsResponse", "InvalidQueryParameterError",
                        "InternalServerError"}
        /\ exc_from # "none" =>
               /\ outcome = "InternalServerError"
               /\ trace.status = "error"

\* C3: in either mode no exception leaves get_response: every failure of the
\* backend comes back as a dict with a status and an error.
NoExceptionEscapes == bpc # "raised"

\* C4, as stated: cleaning a cleaned text changes nothing, for every text.
CleanIdempotent == cstep = 2 => twice = once

\* C4, amended: cleaning a cleaned text changes nothing whenever the cleaned
\* text holds no colon and no "[" followed by a "]".
CleanIdempotentOnSettled ==
    (cstep = 2 /\ ~HasColon(once) /\ ~HasSpan(once)) => twice = once

\* C4 witness: a text with a label and a bracketed span, cleaned to something
\* else that holds neither, and cleaned again
CleanIdempotentReached ==
    /\ cstep = 2
    /\ HasColon(text) /\ HasSpan(SplitColon(text))
    /\ once # SplitColon(text) /\ once # <<>>
    /\ ~HasColon(once) /\ ~HasSpan(once)
    /\ twice = once

\* C5: for every text, clean_response returns the text with everything
\* through the first colon dropped, every bracketed span removed, every run of
\* whitespace collapsed to one space, and the ends trimmed.
CleanMatchesReference == cstep >= 1 => once = ReferenceClean(text)

AtMostOneCall ==
    /\ inference_calls <= 1
    /\ http_requests <= 1
    /\ generate_calls <= 1
    /\ http_requests + generate_calls <= inference_calls

\* C7 witness: a request that is over after its one HTTP request failed
FailedCallNotRetried ==
    /\ pc = "done"
    /\ IsFailure(model_response)
    /\ inference_calls = 1
    /\ http_requests = 1

TwoRecordsInOrder ==
    /\ Len(generations) <= 2
    /\ Len(generations) >= 1 =>
           /\ model_response # NoResult
           /\ generations[1] = RecordOriginal(original_content)
    /\ Len(generations) = 2 =>
           /\ content # Unset
           /\ generations[2] = RecordCleaned(content)
    /\ trace.output # Unset =>
           /\ Len(generations) = 2
           /\ trace.output = content
    /\ outcome = "BotPostsResponse" =>
           /\ Len(generations) = 2
           /\ trace.output = content
           /\ response = content

\* C9 witness: a run that returned a response whose text the cleaning changed
CleanedResponseReturned ==
    /\ outcome = "BotPostsResponse"
    /\ content # original_content
    /\ response = content

\* C10: whatever the interleaving, the messages a call posts are the messages
\* it was called with.
PostsOwnMessages ==
    \A c \in Calls :
        call_pc[c] \in {"remote_check", "returned"} =>
            call_sent[c] = call_messages[c]

====
